---- MODULE Spec2Model ----
(***************************************************************************)
(* Model of the red-teaming runbooks: configuration load (config.py and    *)
(* the top of runbook-v2.py), the three scan examples, the two target      *)
(* callbacks, the two agent demos and the two menu loops (runbook-v2 main, *)
(* runbook-v3 main).  The external collaborators (python-dotenv, the Azure *)
(* credential, RedTeam/scan, AzureOpenAI, the agent framework, the         *)
(* console) are environment: every outcome they can produce is a           *)
(* nondeterministic choice.                                                *)
(*                                                                         *)
(* Python strings that the code inspects (console lines, file names) are   *)
(* sequences of one-character or atomic chunks; None is the value None.    *)
(***************************************************************************)
EXTENDS Integers, Sequences, FiniteSets, TLC

\* ------------------------------------------------------------------ bounds
\* Longest run of blanks typed before and after a console token.
MaxPad == 1
\* Clock ticks (half seconds) the wall clock can show when now() is read.
MaxTick == 2
\* Longest conversation history handed to azure_openai_callback.
MaxMsgs == 2
\* Most console lines read in one interactive agent conversation.
MaxTurns == 2

\* --------------------------------------------------------- python values
None == "None"

\* A local name that is not bound (yet, or any more), or text never produced.
Unbound == <<"<unbound>">>

\* Python truthiness of an Optional[str]: None and "" are falsy.
Truthy(v) == v # None /\ v # ""

\* Python `a or b`.
PyOr(a, b) == IF Truthy(a) THEN a ELSE b

\* Python all([...]) over a set of Optional[str] values.
PyAll(vs) == \A v \in vs : Truthy(v)

\* ----------------------------------------------------------- str helpers
IsSpace(c) == c = " "

RECURSIVE LStrip(_)
LStrip(s) == IF s # <<>> /\ IsSpace(Head(s)) THEN LStrip(Tail(s)) ELSE s

RECURSIVE RStrip(_)
RStrip(s) == IF s # <<>> /\ IsSpace(s[Len(s)])
             THEN RStrip(SubSeq(s, 1, Len(s) - 1))
             ELSE s

\* str.strip()
Strip(s) == RStrip(LStrip(s))

UpperToLower == [c \in {"E", "X", "I", "T", "Q", "U"} |->
                   CASE c = "E" -> "e" [] c = "X" -> "x" [] c = "I" -> "i"
                     [] c = "T" -> "t" [] c = "Q" -> "q" [] c = "U" -> "u"]

\* str.lower()
Lower(s) == [i \in 1..Len(s) |->
               IF s[i] \in DOMAIN UpperToLower THEN UpperToLower[s[i]] ELSE s[i]]

Pad(n) == [i \in 1..n |-> " "]

\* What a user can type for a token: the token with blanks around it.
Typed(tokens) == {Pad(l) \o t \o Pad(r) : l \in 0..MaxPad, r \in 0..MaxPad, t \in tokens}

\* -------------------------------------------------------- process environ
EnvVars == {"AZURE_PROJECT_ENDPOINT", "AZURE_OPENAI_ENDPOINT",
            "AZURE_OPENAI_DEPLOYMENT", "AZURE_OPENAI_DEPLOYMENT_NAME",
            "AZURE_OPENAI_API_KEY", "AZURE_OPENAI_API_VERSION",
            "OPENAI_API_VERSION"}

\* The values a variable can have in the process environment at start:
\* absent, set but empty, or set to a value.
EnvValues(k) ==
  CASE k = "AZURE_PROJECT_ENDPOINT"       -> {None, "", "https://project"}
    [] k = "AZURE_OPENAI_ENDPOINT"        -> {None, "", "https://openai"}
    [] k = "AZURE_OPENAI_DEPLOYMENT"      -> {None, "", "dep-a"}
    [] k = "AZURE_OPENAI_DEPLOYMENT_NAME" -> {None, "", "dep-b"}
    [] k = "AZURE_OPENAI_API_KEY"         -> {None, "", "key"}
    [] k = "AZURE_OPENAI_API_VERSION"     -> {None, "", "2025-01-01"}
    [] OTHER                              -> {None}

Environs == [AZURE_PROJECT_ENDPOINT       : EnvValues("AZURE_PROJECT_ENDPOINT"),
             AZURE_OPENAI_ENDPOINT        : EnvValues("AZURE_OPENAI_ENDPOINT"),
             AZURE_OPENAI_DEPLOYMENT      : EnvValues("AZURE_OPENAI_DEPLOYMENT"),
             AZURE_OPENAI_DEPLOYMENT_NAME : EnvValues("AZURE_OPENAI_DEPLOYMENT_NAME"),
             AZURE_OPENAI_API_KEY         : EnvValues("AZURE_OPENAI_API_KEY"),
             AZURE_OPENAI_API_VERSION     : EnvValues("AZURE_OPENAI_API_VERSION"),
             OPENAI_API_VERSION           : EnvValues("OPENAI_API_VERSION")]

\* Contents of the .env file in the working directory (None: key not in it).
NoDotenv == [k \in EnvVars |-> None]
DotenvFiles == {NoDotenv,
                [NoDotenv EXCEPT !["AZURE_OPENAI_API_KEY"] = "filekey"]}

\* os.environ.get(k)
EnvGet(e, k) == e[k]

\* load_dotenv(): every key of the file that the environment lacks is set
\* (override=False is the default).
LoadDotenv(e, file) == [k \in EnvVars |-> IF e[k] = None THEN file[k] ELSE e[k]]


\* ------------------------------------------------------------------ state
VARIABLES
  prog,        \* entry point: "v2" (runbook-v2.py), "v3" (runbook-v3.py),
               \* "ex" (a caller importing the examples package)
  environ,     \* os.environ
  environ0,    \* os.environ as it was at process start
  outputsDir,  \* whether ./outputs exists (it does not at process start)
  credential,  \* whether the module-level AzureCliCredential was constructed
  cfg,         \* the module-level configuration names
  loadTrace,   \* collaborators touched by the module load, in order
  pc,          \* where the program is
  exc,         \* the exception that left the program, or None
  choice,      \* main(): choice
  trace,       \* console and collaborator events of the current iteration
  timestamp,   \* run_*_scan: timestamp
  output_path, \* run_*_scan: output_path
  scanCall,    \* the arguments scan() was called with, or None
  printed,     \* the path printed after the scan, or None
  cb,          \* the latest target invocation of the scan() in progress
  query,       \* agent demos: the text handed to agent.run, or None
  turns,       \* run_foundry_agent_demo: console lines read so far
  mcpOpen,     \* whether an MCPStreamableHTTPTool context is open
  user_input,  \* run_foundry_agent_demo: user_input
  agentClient  \* the arguments AzureOpenAIResponsesClient was built with

vars == <<prog, environ, environ0, outputsDir, credential,
          cfg, loadTrace, pc, exc, choice, trace, timestamp, output_path,
          scanCall, printed, cb, query, turns, mcpOpen, user_input,
          agentClient>>

\* OUTPUT_DIR = Path("outputs"): a path is the sequence of its parts.
OUTPUT_DIR == << <<"outputs">> >>

\* DEFAULT_RISK_CATEGORIES = [RiskCategory.Violence, ...]
DEFAULT_RISK_CATEGORIES ==
  <<"Violence", "HateUnfairness", "Sexual", "SelfHarm", "ProtectedMaterial",
    "CodeVulnerability", "UngroundedAttributes">>

\* Module-level names before the module body has run.
NoConfig == [AZURE_AI_PROJECT |-> None, AZURE_OPENAI_DEPLOYMENT |-> None,
             AZURE_OPENAI_ENDPOINT |-> None, AZURE_OPENAI_API_KEY |-> None,
             AZURE_OPENAI_API_VERSION |-> None,
             OUTPUT_DIR |-> <<>>, DEFAULT_RISK_CATEGORIES |-> <<>>]

\* ------------------------------------------------------------ module load
\* Mutant of DeploymentOf: only the first spelling is read.
DeploymentOfFirstSpellingOnly(e) == EnvGet(e, "AZURE_OPENAI_DEPLOYMENT")

\* AZURE_OPENAI_DEPLOYMENT = environ.get("AZURE_OPENAI_DEPLOYMENT")
\*                           or environ.get("AZURE_OPENAI_DEPLOYMENT_NAME")
\* (Python's `or` yields its right operand whenever the left one is falsy.)
DeploymentOf(e) == PyOr(EnvGet(e, "AZURE_OPENAI_DEPLOYMENT"),
                        EnvGet(e, "AZURE_OPENAI_DEPLOYMENT_NAME"))

\* config.py: AZURE_OPENAI_API_VERSION = environ.get(...) or "2024-02-15-preview"
ConfigApiVersion(e) == PyOr(EnvGet(e, "AZURE_OPENAI_API_VERSION"), "2024-02-15-preview")

\* runbook-v2.py: AZURE_OPENAI_API_VERSION = environ.get(...)
RunbookApiVersion(e) == EnvGet(e, "AZURE_OPENAI_API_VERSION")

\* The required-variable check of the module load.
ProjectMissing(project) == project = None

\* The module body, from load_dotenv() to OUTPUT_DIR.mkdir(): the state it
\* leaves and the collaborators it touched, in program order.
ModuleLoad(e, file, dirExists, version) ==
  LET e1      == LoadDotenv(e, file)
      project == EnvGet(e1, "AZURE_PROJECT_ENDPOINT")
  IN IF ProjectMissing(project)
     THEN [ok |-> FALSE, exc |-> "ValueError", environ |-> e1,
           credential |-> TRUE, outputsDir |-> dirExists, cfg |-> NoConfig,
           events |-> <<"load_dotenv", "AzureCliCredential", "raise ValueError">>]
     ELSE [ok |-> TRUE, exc |-> None,
           environ |-> IF Truthy(version)
                       THEN [e1 EXCEPT !["OPENAI_API_VERSION"] = version]
                       ELSE e1,
           credential |-> TRUE, outputsDir |-> TRUE,
           cfg |-> [AZURE_AI_PROJECT |-> project,
                    AZURE_OPENAI_DEPLOYMENT |-> DeploymentOf(e1),
                    AZURE_OPENAI_ENDPOINT |-> EnvGet(e1, "AZURE_OPENAI_ENDPOINT"),
                    AZURE_OPENAI_API_KEY |-> EnvGet(e1, "AZURE_OPENAI_API_KEY"),
                    AZURE_OPENAI_API_VERSION |-> version,
                    OUTPUT_DIR |-> OUTPUT_DIR,
                    DEFAULT_RISK_CATEGORIES |-> DEFAULT_RISK_CATEGORIES],
           events |-> <<"load_dotenv", "AzureCliCredential">>
                      \o (IF Truthy(version) THEN <<"environ write">> ELSE <<>>)
                      \o <<"mkdir">>]

\* config.py, imported by every module of the examples package.
ConfigPyLoad(e, file, dirExists) ==
  ModuleLoad(e, file, dirExists, ConfigApiVersion(LoadDotenv(e, file)))

\* The configuration section of runbook-v2.py.
RunbookV2Load(e, file, dirExists) ==
  ModuleLoad(e, file, dirExists, RunbookApiVersion(LoadDotenv(e, file)))

\* Mutant of EntryPoint: the configuration section is run again instead of
\* being run once.
EntryPointReloads(p) == "load"

\* Where control goes once the modules are loaded.
EntryPoint(p) == IF p \in {"v2", "v3"} THEN "menu" ELSE "idle"

\* No scan() call is in progress or was made in this iteration.
NoTarget == [kind |-> "none", name |-> None, config |-> None]
NoScanCall == [azure_ai_project |-> None, target |-> NoTarget, scan_name |-> None,
               output_path |-> Unbound]

\* azure_openai_callback(messages, stream=False, session_state=None, context=None)
DefaultKwargs == [stream |-> FALSE, session_state |-> None, context |-> None]

\* Parts of a target invocation that did not happen.
NoClient  == [constructed |-> FALSE, azure_endpoint |-> None, api_version |-> None]
NoRequest == [sent |-> FALSE, model |-> None, messages |-> <<>>]
NoChat    == [kind |-> "none", content |-> None, exc |-> None]
NoResult  == [type |-> "none", text |-> None, messages |-> <<>>]
NoCallback == [fn |-> "none", arg |-> <<>>, kwargs |-> DefaultKwargs,
               events |-> <<>>, client |-> NoClient,
               request |-> NoRequest, chat |-> NoChat, outcome |-> "none",
               exc |-> None, result |-> NoResult]

\* No AzureOpenAIResponsesClient was built in this iteration.
NoAgentClient == [constructed |-> FALSE, azure_endpoint |-> None,
                  azure_deployment |-> None, api_version |-> None]

Load ==
  /\ pc = "load"
  /\ \E file \in DotenvFiles :
     LET r == IF prog = "v2" THEN RunbookV2Load(environ, file, outputsDir)
                             ELSE ConfigPyLoad(environ, file, outputsDir)
     IN /\ environ' = r.environ
        /\ credential' = r.credential
        /\ outputsDir' = r.outputsDir
        /\ cfg' = r.cfg
        /\ loadTrace' = r.events
        /\ exc' = r.exc
        /\ pc' = IF r.ok THEN EntryPoint(prog) ELSE "raised"
  /\ UNCHANGED <<prog, user_input, environ0, choice, trace, timestamp,
                 output_path, scanCall, printed, cb, query, turns, mcpOpen, agentClient>>

Init ==
  /\ prog \in {"v2", "v3", "ex"}
  /\ environ \in Environs
  /\ environ0 = environ
  /\ outputsDir = FALSE
  /\ credential = FALSE
  /\ cfg = NoConfig
  /\ loadTrace = <<>>
  /\ pc = "load"
  /\ exc = None
  /\ choice = Unbound
  /\ trace = <<>>
  /\ timestamp = Unbound
  /\ output_path = Unbound
  /\ scanCall = NoScanCall
  /\ printed = Unbound
  /\ cb = NoCallback
  /\ query = Unbound
  /\ turns = 0
  /\ mcpOpen = FALSE
  /\ user_input = Unbound
  /\ agentClient = NoAgentClient


\* ------------------------------------------------------------ output path
Digit == [d \in 0..9 |-> CASE d = 0 -> "0" [] d = 1 -> "1" [] d = 2 -> "2"
                           [] d = 3 -> "3" [] d = 4 -> "4" [] d = 5 -> "5"
                           [] d = 6 -> "6" [] d = 7 -> "7" [] d = 8 -> "8"
                           [] d = 9 -> "9"]

\* datetime.now().strftime("%Y%m%d_%H%M%S") of the instant `tick` half
\* seconds into a fixed minute: the sub-second part is dropped and the
\* seconds are written with two digits.
Strftime(tick) ==
  LET sec == tick \div 2
  IN <<"20260101", "_", "0000", Digit[(sec \div 10) % 10], Digit[sec % 10]>>

\* path / name
PathJoin(path, name) == Append(path, name)

\* str(path), also what an f-string prints for a path.
RECURSIVE PathStr(_)
PathStr(path) ==
  IF Len(path) = 0 THEN <<>>
  ELSE IF Len(path) = 1 THEN path[1]
  ELSE path[1] \o <<"/">> \o PathStr(Tail(path))

\* f"<prefix>_{timestamp}.json"
ScanFileName(prefix, ts) == <<prefix, "_">> \o ts \o <<".json">>

\* OUTPUT_DIR / f"<prefix>_{timestamp}.json"
ScanOutputPath(prefix, ts) == PathJoin(cfg.OUTPUT_DIR, ScanFileName(prefix, ts))

\* Mutant of PrintedPath: the function prints output_path.name.
PrintedPathNameOnly(path) == path[Len(path)]

\* The path the function prints in "Results saved to: {output_path}".
PrintedPath(path) == PathStr(path)

\* The output_path argument of scan(): str(output_path).
ScanPathArg(path) == PathStr(path)

\* ------------------------------------------------------------ scan targets
CallableTarget(name) == [kind |-> "callable", name |-> name, config |-> None]
ConfigTarget(config) == [kind |-> "config", name |-> None, config |-> config]

\* Mutant of IntermediaryMissing: the API key is left out of the check.
IntermediaryMissingKeyUnchecked(c) ==
  ~PyAll({c.AZURE_OPENAI_ENDPOINT, c.AZURE_OPENAI_DEPLOYMENT})

\* run_intermediary_scan: `if not all([ENDPOINT, DEPLOYMENT, API_KEY])`
IntermediaryMissing(c) ==
  ~PyAll({c.AZURE_OPENAI_ENDPOINT, c.AZURE_OPENAI_DEPLOYMENT, c.AZURE_OPENAI_API_KEY})

\* run_advanced_scan: `if not all([ENDPOINT, DEPLOYMENT])`
AdvancedMissing(c) ==
  ~PyAll({c.AZURE_OPENAI_ENDPOINT, c.AZURE_OPENAI_DEPLOYMENT})

\* Mutant of ModelConfigApiVersion: the configured value is passed on
\* without a fallback.
ModelConfigApiVersionNoDefault(p, c) == c.AZURE_OPENAI_API_VERSION

\* api_version of the model configuration: runbook-v2.py falls back to a
\* default here, examples/intermediary_scan.py passes config.py's value.
ModelConfigApiVersion(p, c) ==
  IF p = "v2" THEN PyOr(c.AZURE_OPENAI_API_VERSION, "2024-02-15-preview")
  ELSE c.AZURE_OPENAI_API_VERSION

\* azure_oai_model_config
ModelConfig(p, c) ==
  [azure_endpoint   |-> c.AZURE_OPENAI_ENDPOINT,
   azure_deployment |-> c.AZURE_OPENAI_DEPLOYMENT,
   api_key          |-> c.AZURE_OPENAI_API_KEY,
   api_version      |-> ModelConfigApiVersion(p, c)]

\* Mutant of StartScan: scan() is awaited a second time with the same
\* arguments.
StartScanTwice(prefix, target, scan_name, tick) ==
  LET ts   == Strftime(tick)
      path == ScanOutputPath(prefix, ts)
  IN /\ timestamp' = ts
     /\ output_path' = path
     /\ scanCall' = [azure_ai_project |-> cfg.AZURE_AI_PROJECT,
                     target |-> target, scan_name |-> scan_name,
                     output_path |-> ScanPathArg(path)]
     /\ trace' = trace \o <<"RedTeam", "now", "scan", "scan">>
     /\ pc' = "scanning"
     /\ UNCHANGED exc

\* The state a run_*_scan leaves when it awaits scan(): RedTeam(...) is
\* constructed, the clock is read once, the path is built from that reading
\* and scan() is called with str(output_path).
StartScan(prefix, target, scan_name, tick) ==
  LET ts   == Strftime(tick)
      path == ScanOutputPath(prefix, ts)
  IN /\ timestamp' = ts
     /\ output_path' = path
     /\ scanCall' = [azure_ai_project |-> cfg.AZURE_AI_PROJECT,
                     target |-> target, scan_name |-> scan_name,
                     output_path |-> ScanPathArg(path)]
     /\ trace' = trace \o <<"RedTeam", "now", "scan">>
     /\ pc' = "scanning"
     /\ UNCHANGED exc

\* Mutant of RaiseValueError: main() catches the failure of the selected
\* action and goes on to its continue prompt.
RaiseValueErrorCaughtByMain ==
  /\ pc' = "cont"
  /\ trace' = Append(trace, "raise ValueError")
  /\ UNCHANGED <<exc, timestamp, output_path, scanCall>>

\* A failed validation: ValueError leaves the function before anything else.
RaiseValueError ==
  /\ pc' = "raised"
  /\ exc' = "ValueError"
  /\ trace' = Append(trace, "raise ValueError")
  /\ UNCHANGED <<timestamp, output_path, scanCall>>

RunBasicScan ==
  /\ pc = "run_basic"
  /\ \E tick \in 0..MaxTick :
       StartScan("basic_scan", CallableTarget("financial_advisor_callback"),
                 "Basic-Callback-Scan", tick)
  /\ UNCHANGED <<prog, user_input, environ, environ0, outputsDir, credential, cfg,
                 loadTrace, choice, printed, cb, query, turns, mcpOpen, agentClient>>

RunIntermediaryScan ==
  /\ pc = "run_intermediary"
  /\ IF IntermediaryMissing(cfg)
     THEN RaiseValueError
     ELSE \E tick \in 0..MaxTick :
            StartScan("intermediary_scan", ConfigTarget(ModelConfig(prog, cfg)),
                      "Intermediary-Model-Target-Scan", tick)
  /\ UNCHANGED <<prog, user_input, environ, environ0, outputsDir, credential, cfg,
                 loadTrace, choice, printed, cb, query, turns, mcpOpen, agentClient>>

RunAdvancedScan ==
  /\ pc = "run_advanced"
  /\ IF AdvancedMissing(cfg)
     THEN RaiseValueError
     ELSE \E tick \in 0..MaxTick :
            StartScan("advanced_scan", CallableTarget("azure_openai_callback"),
                      "Advanced-Callback-Scan", tick)
  /\ UNCHANGED <<prog, user_input, environ, environ0, outputsDir, credential, cfg,
                 loadTrace, choice, printed, cb, query, turns, mcpOpen, agentClient>>


\* -------------------------------------------------------- target callbacks
\* Mutant of DictResult: the callback returns the bare list of messages
\* instead of wrapping it in {"messages": ...}.
DictResultBareList(messages) == [type |-> "list", text |-> None, messages |-> messages]

\* A returned dict {"messages": [...]}.
DictResult(messages) == [type |-> "dict", text |-> None, messages |-> messages]

\* A returned str.
StrResult(text) == [type |-> "str", text |-> text, messages |-> <<>>]

\* financial_advisor_callback(query) -> str
FinancialAdvisorCallback(q) ==
  [NoCallback EXCEPT
     !.fn = "financial_advisor_callback", !.arg = q, !.outcome = "returned",
     !.result = StrResult("I'm a financial advisor assistant. I can help with investment advice and financial planning within legal and ethical guidelines.")]

\* The classes `except Exception` catches: every exception a call can raise
\* except the BaseException-only ones (KeyboardInterrupt, SystemExit).
IsException(e) == e \notin {None, "KeyboardInterrupt", "SystemExit"}

\* Mutant of ChatFailureCaught: `except APITimeoutError` instead of the
\* catch-all.
ChatFailureCaughtTimeoutOnly(e) == e = "APITimeoutError"

\* `except Exception as e:` around client.chat.completions.create(...)
ChatFailureCaught(e) == IsException(e)

\* Mutant of MessagesList: the list is built newest first.
MessagesListReversed(messages) ==
  [i \in 1..Len(messages) |->
     [role |-> messages[Len(messages) + 1 - i].role,
      content |-> messages[Len(messages) + 1 - i].content]]

\* messages_list = [{"role": m.role, "content": m.content} for m in messages]
MessagesList(messages) ==
  [i \in 1..Len(messages) |-> [role |-> messages[i].role, content |-> messages[i].content]]

\* api_version of the AzureOpenAI client: runbook-v2.py falls back to a
\* default, examples/advanced_scan.py passes config.py's value.
ClientApiVersion(p, c) ==
  IF p = "v2" THEN PyOr(c.AZURE_OPENAI_API_VERSION, "2024-02-15-preview")
  ELSE c.AZURE_OPENAI_API_VERSION

ApologyText == "I encountered an error and couldn't process your request."

\* Mutant of AzureOpenAICallback: a failed chat-completion call is issued a
\* second time before the apology is returned.
AzureOpenAICallbackRetriesOnce(p, c, messages, stream, session_state, context, clientOutcome, chat) ==
  [NoCallback EXCEPT
     !.fn = "azure_openai_callback", !.arg = messages,
     !.kwargs = [stream |-> stream, session_state |-> session_state,
                 context |-> context],
     !.events = <<"get_bearer_token_provider", "AzureOpenAI", "chat.completions.create">>
                \o (IF chat.kind = "raise" THEN <<"chat.completions.create">> ELSE <<>>),
     !.chat = chat, !.outcome = "returned",
     !.result = DictResult(<<[content |-> ApologyText, role |-> "assistant"]>>)]

\* azure_openai_callback(messages, stream, session_state, context).
\* clientOutcome: whether get_bearer_token_provider / AzureOpenAI(...) raise;
\* chat: what client.chat.completions.create does when it is reached.
AzureOpenAICallback(p, c, messages, stream, session_state, context, clientOutcome, chat) ==
  LET started == [NoCallback EXCEPT
                    !.fn = "azure_openai_callback", !.arg = messages,
                    !.kwargs = [stream |-> stream, session_state |-> session_state,
                                context |-> context],
                    !.events = <<"get_bearer_token_provider", "AzureOpenAI">>]
  IN IF clientOutcome = "raise"
     THEN [started EXCEPT !.outcome = "raised", !.exc = "ClientError"]
     ELSE
       LET built == [started EXCEPT
                       !.client = [constructed |-> TRUE,
                                   azure_endpoint |-> c.AZURE_OPENAI_ENDPOINT,
                                   api_version |-> ClientApiVersion(p, c)]]
           messages_list == MessagesList(messages)
       IN IF Len(messages_list) = 0
          THEN \* messages_list[-1] on an empty list
               [built EXCEPT !.outcome = "raised", !.exc = "IndexError"]
          ELSE
            LET latest_message == messages_list[Len(messages_list)].content
                called == [built EXCEPT
                             !.events = Append(@, "chat.completions.create"),
                             !.request = [sent |-> TRUE,
                                          model |-> c.AZURE_OPENAI_DEPLOYMENT,
                                          messages |-> <<[role |-> "user",
                                                          content |-> latest_message]>>],
                             !.chat = chat]
            IN IF chat.kind = "ok"
               THEN [called EXCEPT
                       !.outcome = "returned",
                       !.result = DictResult(<<[content |-> chat.content,
                                                role |-> "assistant"]>>)]
               ELSE IF ChatFailureCaught(chat.exc)
               THEN [called EXCEPT
                       !.outcome = "returned",
                       !.result = DictResult(<<[content |-> ApologyText,
                                                role |-> "assistant"]>>)]
               ELSE [called EXCEPT !.outcome = "raised", !.exc = chat.exc]

\* ------------------------------------------------ what the SDK can hand in
Roles == {"user", "assistant"}
Contents == {"attack-1", "attack-2"}
ChatMessages == [role : Roles, content : Contents]

\* Well-formed conversation histories, the empty one included.
Histories == UNION {[1..n -> ChatMessages] : n \in 0..MaxMsgs}

Queries == {"attack-1", "attack-2"}

\* What the chat-completion call can do: answer (the content of a filtered
\* answer is None), fail, or be interrupted from the keyboard.
ChatOutcomes ==
  {[kind |-> "ok", content |-> t, exc |-> None] : t \in {"reply", None}}
  \cup {[kind |-> "raise", content |-> None, exc |-> e] :
          e \in {"BadRequestError", "APITimeoutError", "KeyboardInterrupt"}}

\* What the collaborators of one callback invocation can do: the client
\* construction raises (the chat call is then never reached), or it succeeds
\* and the chat call does one of the above.
CallbackWorlds ==
  {[client |-> "raise", chat |-> NoChat]}
  \cup {[client |-> "ok", chat |-> c] : c \in ChatOutcomes}

\* The keyword arguments the SDK can pass along with a history.
Kwargs == [stream : BOOLEAN, session_state : {None, "state"}, context : {None, "ctx"}]

\* ------------------------------------------------------------ inside scan()
\* The SDK invokes the target it was given, with one of `histories` and one
\* of `kwargs` when the target takes a conversation history.
SdkCalls(histories, kwargs) ==
  /\ pc = "scanning"
  /\ scanCall.target.kind = "callable"
  /\ cb = NoCallback
  /\ IF scanCall.target.name = "financial_advisor_callback"
     THEN \E q \in Queries : cb' = FinancialAdvisorCallback(q)
     ELSE \E h \in histories, k \in kwargs, w \in CallbackWorlds :
            cb' = AzureOpenAICallback(prog, cfg, h, k.stream, k.session_state,
                                      k.context, w.client, w.chat)
  /\ UNCHANGED <<prog, user_input, environ, environ0, outputsDir, credential, cfg,
                 loadTrace, pc, exc, choice, trace, timestamp, output_path,
                 scanCall, printed, query, turns, mcpOpen, agentClient>>

\* The histories the SDK opens a conversation with: at most one message.
OpeningHistories == {h \in Histories : Len(h) <= 1}

\* The SDK opening a conversation, the keyword arguments left at their
\* defaults.
SdkCallsTarget == SdkCalls(OpeningHistories, {DefaultKwargs})

\* The SDK deep into a multi-turn conversation: any history, any keyword
\* arguments.
SdkCallsTargetMultiTurn == SdkCalls(Histories, Kwargs)

\* The target invocation is over (it returned to the SDK or raised into it);
\* the SDK goes on with the scan.
SdkTargetDone ==
  /\ pc = "scanning"
  /\ cb # NoCallback
  /\ cb' = NoCallback
  /\ UNCHANGED <<prog, user_input, environ, environ0, outputsDir, credential, cfg,
                 loadTrace, pc, exc, choice, trace, timestamp, output_path,
                 scanCall, printed, query, turns, mcpOpen, agentClient>>

\* Where a finished example returns to: runbook-v2's main prints its
\* "completed" line and waits for Enter; a direct caller just gets the result.
AfterExample(p) == IF p \in {"v2", "v3"} THEN "cont" ELSE "returned"

\* scan() returns and run_*_scan prints the path and returns, or scan()
\* raises, which neither run_*_scan nor main catches.
ScanReturns ==
  /\ pc = "scanning"
  /\ \E outcome \in {"ok", "raise"} :
       IF outcome = "ok"
       THEN /\ printed' = PrintedPath(output_path)
            /\ trace' = trace \o <<"print path">>
                        \o (IF prog = "v2" THEN <<"print completed">> ELSE <<>>)
            /\ pc' = AfterExample(prog)
            /\ UNCHANGED exc
       ELSE /\ exc' = "ScanError"
            /\ pc' = "raised"
            /\ trace' = Append(trace, "raise ScanError")
            /\ UNCHANGED printed
  /\ cb' = NoCallback
  /\ UNCHANGED <<prog, user_input, environ, environ0, outputsDir, credential, cfg,
                 loadTrace, choice, timestamp, output_path, scanCall, query,
                 turns, mcpOpen, agentClient>>


\* ---------------------------------------------------------------- console
\* What input() can do: return the typed line, or raise KeyboardInterrupt
\* (Ctrl-C) or EOFError (end of input).
ConsoleInputs(tokens) ==
  {[kind |-> "line", text |-> l] : l \in Typed(tokens)}
  \cup {[kind |-> k, text |-> <<>>] : k \in {"KeyboardInterrupt", "EOFError"}}

\* `except (KeyboardInterrupt, EOFError):` around the choice prompt.
ChoicePromptCatches(kind) == kind \in {"KeyboardInterrupt", "EOFError"}

\* ------------------------------------------------------------- agent demos
DefaultQuery == <<"How do I create an Azure Storage account using Azure CLI?">>

\* api_version=AZURE_OPENAI_API_VERSION or "2024-12-01-preview"
AgentApiVersion(c) == PyOr(c.AZURE_OPENAI_API_VERSION, "2024-12-01-preview")

\* AzureOpenAIResponsesClient(credential=..., azure_endpoint=..., ...)
ResponsesClient(c) ==
  [constructed |-> TRUE, azure_endpoint |-> c.AZURE_OPENAI_ENDPOINT,
   azure_deployment |-> c.AZURE_OPENAI_DEPLOYMENT,
   api_version |-> AgentApiVersion(c)]

\* run_foundry_agent_demo: the two `if not ...: raise ValueError(...)`.
FoundryConfigMissing(c) ==
  ~Truthy(c.AZURE_OPENAI_ENDPOINT) \/ ~Truthy(c.AZURE_OPENAI_DEPLOYMENT)

\* run_single_query_demo has no validation of the configuration.
SingleQueryConfigMissing(c) == FALSE

\* Mutant of IsExitWord: the comparison is made without .lower().
IsExitWordCaseSensitive(text) ==
  text \in {<<"e", "x", "i", "t">>, <<"q", "u", "i", "t">>, <<"q">>}

\* `user_input.lower() in ['exit', 'quit', 'q']`
IsExitWord(text) ==
  Lower(text) \in {<<"e", "x", "i", "t">>, <<"q", "u", "i", "t">>, <<"q">>}

\* Mutant of AgentFailureCaught: `except TimeoutError` instead of the
\* catch-all.
AgentFailureCaughtTimeoutOnly(e) == e = "TimeoutError"

\* `except Exception as e:` around agent.run(...)
AgentFailureCaught(e) == IsException(e)

\* What agent.run can do: answer, fail, or be interrupted.
AgentOutcomes == {"ok", "RuntimeError", "KeyboardInterrupt"}

\* What a user types in the conversation.
ConversationTokens == {<<>>, <<"h", "i">>, <<"e", "x", "i", "t">>,
                       <<"Q", "U", "I", "T">>, <<"q">>, <<"e", "x", "i", "t", "s">>}

\* From the banner to the first prompt of the conversation: validation,
\* credential, client, agent, then the MCP context is entered.
RunFoundryAgentDemo ==
  /\ pc = "run_foundry"
  /\ IF FoundryConfigMissing(cfg)
     THEN /\ pc' = "raised"
          /\ exc' = "ValueError"
          /\ trace' = Append(trace, "raise ValueError")
          /\ UNCHANGED <<mcpOpen, agentClient, turns>>
     ELSE /\ agentClient' = ResponsesClient(cfg)
          /\ turns' = 0
          /\ \E mcp \in {"ok", "raise"} :
               IF mcp = "ok"
               THEN /\ mcpOpen' = TRUE
                    /\ pc' = "conv"
                    /\ trace' = trace \o <<"AzureCliCredential", "AzureOpenAIResponsesClient",
                                           "as_agent", "mcp open">>
                    /\ UNCHANGED exc
               ELSE /\ mcpOpen' = FALSE
                    /\ pc' = "raised"
                    /\ exc' = "McpError"
                    /\ trace' = trace \o <<"AzureCliCredential", "AzureOpenAIResponsesClient",
                                           "as_agent", "raise McpError">>
  /\ UNCHANGED <<prog, user_input, environ, environ0, outputsDir, credential, cfg,
                 loadTrace, choice, timestamp, output_path, scanCall, printed,
                 cb, query>>

\* One pass of the conversation loop up to its next suspension: the prompt,
\* then break, continue, or the call of agent.run.  An interrupted input()
\* assigns nothing to user_input.
ConversationInput ==
  /\ pc = "conv"
  /\ \E inp \in ConsoleInputs(ConversationTokens) :
       IF inp.kind # "line"
       THEN /\ mcpOpen' = FALSE
            /\ pc' = AfterExample(prog)
            /\ trace' = trace \o <<"input interrupted", "mcp close", "print banner",
                                   "print completed">>
            /\ UNCHANGED <<user_input, query, turns>>
       ELSE /\ user_input' = Strip(inp.text)
            /\ IF user_input' = <<>>
               THEN /\ turns < MaxTurns
                    /\ turns' = turns + 1
                    /\ trace' = Append(trace, "input user")
                    /\ UNCHANGED <<pc, query, mcpOpen>>
               ELSE IF IsExitWord(user_input')
               THEN /\ mcpOpen' = FALSE
                    /\ pc' = AfterExample(prog)
                    /\ trace' = trace \o <<"input user", "mcp close", "print banner",
                                           "print completed">>
                    /\ UNCHANGED <<query, turns>>
               ELSE /\ turns < MaxTurns
                    /\ turns' = turns + 1
                    /\ query' = user_input'
                    /\ pc' = "agent_run"
                    /\ trace' = trace \o <<"input user", "agent.run">>
                    /\ UNCHANGED mcpOpen
  /\ UNCHANGED <<prog, environ, environ0, outputsDir, credential, cfg,
                 loadTrace, exc, choice, timestamp, output_path, scanCall,
                 printed, cb, agentClient>>

\* agent.run of the conversation loop completes.
AgentRunReturns ==
  /\ pc = "agent_run"
  /\ \E outcome \in AgentOutcomes :
       IF outcome = "ok" \/ AgentFailureCaught(outcome)
       THEN /\ pc' = "conv"
            /\ trace' = Append(trace, IF outcome = "ok" THEN "print answer"
                                                        ELSE "print error")
            /\ UNCHANGED <<exc, mcpOpen>>
       ELSE \* leaves through the `async with`, which closes the context
            /\ pc' = "raised"
            /\ exc' = outcome
            /\ mcpOpen' = FALSE
            /\ trace' = trace \o <<"mcp close", "raise">>
  /\ UNCHANGED <<prog, user_input, environ, environ0, outputsDir, credential, cfg,
                 loadTrace, choice, timestamp, output_path, scanCall, printed,
                 cb, query, turns, agentClient>>

\* run_single_query_demo(query) up to its await of agent.run.
RunSingleQueryDemo ==
  /\ pc = "run_single"
  /\ IF SingleQueryConfigMissing(cfg)
     THEN /\ pc' = "raised"
          /\ exc' = "ValueError"
          /\ trace' = Append(trace, "raise ValueError")
          /\ UNCHANGED <<mcpOpen, agentClient, query>>
     ELSE /\ query' = IF query = Unbound \/ query = <<>> THEN DefaultQuery ELSE query
          /\ agentClient' = ResponsesClient(cfg)
          /\ \E mcp \in {"ok", "raise"} :
               IF mcp = "ok"
               THEN /\ mcpOpen' = TRUE
                    /\ pc' = "single_run"
                    /\ trace' = trace \o <<"AzureCliCredential", "AzureOpenAIResponsesClient",
                                           "as_agent", "mcp open", "agent.run">>
                    /\ UNCHANGED exc
               ELSE /\ mcpOpen' = FALSE
                    /\ pc' = "raised"
                    /\ exc' = "McpError"
                    /\ trace' = trace \o <<"AzureCliCredential", "AzureOpenAIResponsesClient",
                                           "as_agent", "raise McpError">>
  /\ UNCHANGED <<prog, user_input, environ, environ0, outputsDir, credential, cfg,
                 loadTrace, choice, timestamp, output_path, scanCall, printed,
                 cb, turns>>

\* Mutant of SingleRunReturns: the MCP connection is closed only on the
\* paths that reach the end of the block, not when an exception leaves it.
SingleRunReturnsLeaksOnRaise ==
  /\ pc = "single_run"
  /\ \E outcome \in AgentOutcomes :
       IF outcome = "ok" \/ AgentFailureCaught(outcome)
       THEN /\ pc' = AfterExample(prog)
            /\ mcpOpen' = FALSE
            /\ trace' = trace \o <<IF outcome = "ok" THEN "print answer" ELSE "print error",
                                   "mcp close", "print banner", "print completed">>
            /\ UNCHANGED exc
       ELSE /\ pc' = "raised"
            /\ exc' = outcome
            /\ trace' = Append(trace, "raise")
            /\ UNCHANGED mcpOpen
  /\ UNCHANGED <<prog, user_input, environ, environ0, outputsDir, credential, cfg,
                 loadTrace, choice, timestamp, output_path, scanCall, printed,
                 cb, query, turns, agentClient>>

\* agent.run of the single query completes; the function leaves the context,
\* prints its banner and returns to main, which prints "completed".
SingleRunReturns ==
  /\ pc = "single_run"
  /\ mcpOpen' = FALSE
  /\ \E outcome \in AgentOutcomes :
       IF outcome = "ok" \/ AgentFailureCaught(outcome)
       THEN /\ pc' = AfterExample(prog)
            /\ trace' = trace \o <<IF outcome = "ok" THEN "print answer" ELSE "print error",
                                   "mcp close", "print banner", "print completed">>
            /\ UNCHANGED exc
       ELSE /\ pc' = "raised"
            /\ exc' = outcome
            /\ trace' = trace \o <<"mcp close", "raise">>
  /\ UNCHANGED <<prog, user_input, environ, environ0, outputsDir, credential, cfg,
                 loadTrace, choice, timestamp, output_path, scanCall, printed,
                 cb, query, turns, agentClient>>


\* -------------------------------------------------------------- menu loops
\* What a user types at a menu prompt.
MenuTokens == {<<"0">>, <<"1">>, <<"2">>, <<"3">>, <<"4">>, <<"5">>, <<>>, <<"0", "0">>}

\* Mutant of V2Dispatch: the `elif choice == "0"` branch is missing, so "0"
\* falls through to the invalid-choice branch.
V2DispatchExitMissing(c) ==
  CASE c = <<"1">> -> "run_basic"
    [] c = <<"2">> -> "run_intermediary"
    [] c = <<"3">> -> "run_advanced"
    [] c = <<"4">> -> "display"
    [] OTHER       -> "invalid"

\* The if/elif chain of runbook-v2 main().
V2Dispatch(c) ==
  CASE c = <<"1">> -> "run_basic"
    [] c = <<"2">> -> "run_intermediary"
    [] c = <<"3">> -> "run_advanced"
    [] c = <<"4">> -> "display"
    [] c = <<"0">> -> "exit"
    [] OTHER       -> "invalid"

\* Mutant of V3Dispatch: anything that is not "2" or "0" starts the
\* interactive demo.
V3DispatchDefaultsToDemo(c) ==
  CASE c = <<"2">> -> "query_input"
    [] c = <<"0">> -> "exit"
    [] OTHER       -> "run_foundry"

\* The if/elif chain of runbook-v3 main().
V3Dispatch(c) ==
  CASE c = <<"1">> -> "run_foundry"
    [] c = <<"2">> -> "query_input"
    [] c = <<"0">> -> "exit"
    [] OTHER       -> "invalid"

Dispatch(p, c) == IF p = "v2" THEN V2Dispatch(c) ELSE V3Dispatch(c)

\* The top of one loop iteration of main(): display_menu(), the choice
\* prompt, and the branch taken, up to the branch's first suspension.
MainChoice ==
  /\ pc = "menu"
  /\ \E inp \in ConsoleInputs(MenuTokens) :
       IF inp.kind # "line"
       THEN IF ChoicePromptCatches(inp.kind)
            THEN /\ pc' = "returned"
                 /\ trace' = <<"display_menu", "input choice", "print exiting">>
                 /\ UNCHANGED <<choice, exc>>
            ELSE /\ pc' = "raised"
                 /\ exc' = inp.kind
                 /\ trace' = <<"display_menu", "input choice", "raise">>
                 /\ UNCHANGED choice
       ELSE /\ choice' = Strip(inp.text)
            /\ UNCHANGED exc
            /\ LET d == Dispatch(prog, choice')
               IN CASE d = "exit" ->
                         /\ pc' = "returned"
                         /\ trace' = <<"display_menu", "input choice", "print goodbye">>
                    [] d = "display" ->
                         /\ pc' = "cont"
                         /\ trace' = <<"display_menu", "input choice",
                                       "display_attack_strategies">>
                    [] d = "invalid" ->
                         /\ pc' = "cont"
                         /\ trace' = <<"display_menu", "input choice", "print invalid">>
                    [] OTHER ->
                         /\ pc' = d
                         /\ trace' = <<"display_menu", "input choice">>
  /\ UNCHANGED <<prog, user_input, environ, environ0, outputsDir, credential, cfg,
                 loadTrace, timestamp, output_path, scanCall, printed, cb, query, turns, mcpOpen, agentClient>>

\* runbook-v3 main(), option 2: the custom-query prompt, outside any try.
MainQueryInput ==
  /\ pc = "query_input"
  /\ \E inp \in ConsoleInputs({<<>>, <<"h", "i">>}) :
       IF inp.kind = "line"
       THEN /\ query' = Strip(inp.text)
            /\ pc' = "run_single"
            /\ trace' = Append(trace, "input query")
            /\ UNCHANGED exc
       ELSE /\ pc' = "raised"
            /\ exc' = inp.kind
            /\ trace' = trace \o <<"input query", "raise">>
            /\ UNCHANGED query
  /\ UNCHANGED <<prog, user_input, environ, environ0, outputsDir, credential, cfg,
                 loadTrace, choice, timestamp, output_path, scanCall, printed,
                 cb, turns, mcpOpen, agentClient>>

\* The bottom of the loop iteration: input("Press Enter to continue..."),
\* outside any try; then the loop starts over and the locals of the
\* finished branch are gone.
MainContinue ==
  /\ pc = "cont"
  /\ \E inp \in ConsoleInputs({<<>>, <<"y">>}) :
       IF inp.kind = "line"
       THEN /\ pc' = "menu"
            /\ trace' = <<>>
            /\ timestamp' = Unbound
            /\ output_path' = Unbound
            /\ scanCall' = NoScanCall
            /\ printed' = Unbound
            /\ query' = Unbound
            /\ user_input' = Unbound
            /\ agentClient' = NoAgentClient
            /\ turns' = 0
            /\ UNCHANGED exc
       ELSE /\ pc' = "raised"
            /\ exc' = inp.kind
            /\ trace' = trace \o <<"input continue", "raise">>
            /\ UNCHANGED <<timestamp, output_path, scanCall, printed, query,
                           user_input, agentClient, turns>>
  /\ UNCHANGED <<prog, environ, environ0, outputsDir, credential, cfg,
                 loadTrace, choice, cb, mcpOpen>>

\* A caller of the examples package awaits one of its scan functions.
CallExample ==
  /\ pc = "idle"
  /\ pc' \in {"run_basic", "run_intermediary", "run_advanced"}
  /\ UNCHANGED <<prog, user_input, environ, environ0, outputsDir, credential, cfg,
                 loadTrace, exc, choice, trace, timestamp, output_path, scanCall,
                 printed, cb, query, turns, mcpOpen, agentClient>>

\* ---------------------------------------------------------- specification
Next ==
  \/ Load
  \/ MainChoice
  \/ MainQueryInput
  \/ MainContinue
  \/ CallExample
  \/ RunBasicScan
  \/ RunIntermediaryScan
  \/ RunAdvancedScan
  \/ SdkCallsTarget
  \/ SdkTargetDone
  \/ ScanReturns
  \/ RunFoundryAgentDemo
  \/ ConversationInput
  \/ AgentRunReturns
  \/ RunSingleQueryDemo
  \/ SingleRunReturns

Spec == Init /\ [][Next]_vars

\* The scans alone, under every complete configuration, with the SDK handing
\* the callback target conversation histories of every length.
CompleteEnvirons ==
  {e \in Environs : /\ e.AZURE_PROJECT_ENDPOINT = "https://project"
                    /\ e.AZURE_OPENAI_ENDPOINT = "https://openai"
                    /\ e.AZURE_OPENAI_DEPLOYMENT_NAME = "dep-b"
                    /\ e.AZURE_OPENAI_DEPLOYMENT # ""
                    /\ e.AZURE_OPENAI_API_KEY = "key"
                    /\ e.AZURE_OPENAI_API_VERSION # ""}

InitScans ==
  /\ Init
  /\ prog \in {"v2", "ex"}
  /\ environ \in CompleteEnvirons

NextScans ==
  \/ Load
  \/ MainChoice
  \/ MainContinue
  \/ CallExample
  \/ RunBasicScan
  \/ RunIntermediaryScan
  \/ RunAdvancedScan
  \/ SdkCallsTargetMultiTurn
  \/ SdkTargetDone
  \/ ScanReturns

SpecScans == InitScans /\ [][NextScans]_vars


\* ================================================================== claims
\* A configuration value that is absent or empty.
Missing(v) == v = None \/ v = ""

InTrace(e) == \E i \in 1..Len(trace) : trace[i] = e

Interrupts == {"KeyboardInterrupt", "EOFError"}

\* The console prompts main() itself waits on.
MainPrompts == {"input choice", "input continue", "input query"}

\* C1: in both menu loops a keyboard interrupt or end-of-input at any console
\* prompt of main() (choice, 'Press Enter to continue...', custom query) ends
\* the loop with main() returning normally: main() never ends by raising the
\* interruption it met at one of its own prompts.
C1_InterruptAtAnyPromptReturns ==
  ~ /\ pc = "raised"
    /\ exc \in Interrupts
    /\ Len(trace) >= 2
    /\ trace[Len(trace)] = "raise"
    /\ trace[Len(trace) - 1] \in MainPrompts

\* C2: in both menu loops the choice "0" (after stripping) ends the loop in
\* the same iteration: nothing but the menu, the prompt and the goodbye line
\* happens, main() returns normally, and the program takes no further step.
C2_ExitChoiceTerminates ==
  [][ /\ (pc = "menu" /\ choice' = <<"0">>)
         => /\ pc' = "returned"
            /\ exc' = None
            /\ trace' = <<"display_menu", "input choice", "print goodbye">>
            /\ scanCall' = NoScanCall
            /\ agentClient' = NoAgentClient
      /\ pc # "returned" ]_vars

C2_Witness ==
  /\ prog = "v2"
  /\ pc = "returned"
  /\ choice = <<"0">>
  /\ trace = <<"display_menu", "input choice", "print goodbye">>

\* C3 (as stated): every callable handed to scan() as a target returns a
\* dict with a `messages` key holding role/content entries.
C3_EveryTargetReturnsMessagesDict ==
  cb.outcome = "returned"
    => /\ cb.result.type = "dict"
       /\ Len(cb.result.messages) >= 1
       /\ \A i \in 1..Len(cb.result.messages) :
            {"role", "content"} \subseteq DOMAIN cb.result.messages[i]

\* C3 (amended): azure_openai_callback, whenever it returns, returns a dict
\* whose `messages` value holds one role/content entry;
\* financial_advisor_callback always returns a plain str, not a dict.
C3_TargetReturnShapes ==
  /\ (cb.fn = "azure_openai_callback" /\ cb.outcome = "returned")
       => /\ cb.result.type = "dict"
          /\ Len(cb.result.messages) = 1
          /\ DOMAIN cb.result.messages[1] = {"role", "content"}
  /\ cb.fn = "financial_advisor_callback"
       => /\ cb.outcome = "returned"
          /\ cb.result.type = "str"

C3_Witness ==
  /\ cb.fn = "azure_openai_callback"
  /\ cb.outcome = "returned"
  /\ cb.chat.kind = "ok"
  /\ Len(cb.arg) = 2

\* C4: for any well-formed history, the empty one included, azure_openai_callback
\* returns normally {"messages": [m]} with m one mapping holding role
\* "assistant" and a content, on every path (the model call succeeds or fails,
\* the credential/client construction fails).
C4_CallbackAlwaysReturnsOneAssistantMessage ==
  cb.fn = "azure_openai_callback"
    => /\ cb.outcome = "returned"
       /\ cb.result.type = "dict"
       /\ Len(cb.result.messages) = 1
       /\ DOMAIN cb.result.messages[1] = {"role", "content"}
       /\ cb.result.messages[1].role = "assistant"

\* C5: in run_intermediary_scan and run_advanced_scan a missing mandatory
\* value (endpoint, deployment, and the API key for the intermediary scan)
\* raises ValueError before anything else: no RedTeam, no scan(), no clock
\* reading, no output path computed or printed.
C5_ScanValidationFirst ==
  [][ ( \/ /\ pc = "run_intermediary"
           /\ \/ Missing(cfg.AZURE_OPENAI_ENDPOINT)
              \/ Missing(cfg.AZURE_OPENAI_DEPLOYMENT)
              \/ Missing(cfg.AZURE_OPENAI_API_KEY)
        \/ /\ pc = "run_advanced"
           /\ \/ Missing(cfg.AZURE_OPENAI_ENDPOINT)
              \/ Missing(cfg.AZURE_OPENAI_DEPLOYMENT) )
      => /\ pc' = "raised"
         /\ exc' = "ValueError"
         /\ scanCall' = NoScanCall
         /\ timestamp' = Unbound
         /\ output_path' = Unbound
         /\ printed' = Unbound
         /\ \A i \in 1..Len(trace') : trace'[i] \notin {"RedTeam", "now", "scan", "print path"}
    ]_vars

C5_Witness ==
  /\ prog = "v2"
  /\ choice = <<"2">>
  /\ pc = "raised"
  /\ exc = "ValueError"
  /\ cfg.AZURE_OPENAI_ENDPOINT = "https://openai"
  /\ cfg.AZURE_OPENAI_DEPLOYMENT = "dep-b"
  /\ cfg.AZURE_OPENAI_API_KEY = ""

\* C6: in both agent demos a missing endpoint or deployment means that no
\* credential is created, no client or agent is built, no MCP connection is
\* opened and agent.run is never called.
C6_AgentDemosValidateFirst ==
  (prog = "v3" /\ (Missing(cfg.AZURE_OPENAI_ENDPOINT) \/ Missing(cfg.AZURE_OPENAI_DEPLOYMENT)))
    => /\ ~agentClient.constructed
       /\ ~mcpOpen
       /\ pc \notin {"conv", "agent_run", "single_run"}
       /\ \A i \in 1..Len(trace) :
            trace[i] \notin {"AzureCliCredential", "AzureOpenAIResponsesClient",
                             "as_agent", "mcp open", "agent.run"}

\* C7: a configuration load that fails for want of AZURE_PROJECT_ENDPOINT
\* raises ValueError before the credential object is constructed, before the
\* write of OPENAI_API_VERSION and before the outputs directory is made: the
\* environment and the file system are as they were.
C7_FailedLoadTouchesNothing ==
  (pc = "raised" /\ cfg = NoConfig /\ loadTrace # <<>>)
    => /\ exc = "ValueError"
       /\ ~credential
       /\ \A i \in 1..Len(loadTrace) : loadTrace[i] # "AzureCliCredential"
       /\ environ = environ0
       /\ ~outputsDir

\* C8: whenever an example reaches its external SDK call, every value it
\* requires is non-empty: the project endpoint for the three scans, endpoint
\* and deployment for the intermediary, advanced and agent examples, the API
\* key for the intermediary scan.
C8_RequiredValuesNonEmptyAtCall ==
  /\ scanCall.scan_name # None => ~Missing(scanCall.azure_ai_project)
  /\ scanCall.target.kind = "config"
       => /\ ~Missing(scanCall.target.config.azure_endpoint)
          /\ ~Missing(scanCall.target.config.azure_deployment)
          /\ ~Missing(scanCall.target.config.api_key)
  /\ cb.request.sent
       => /\ ~Missing(cb.client.azure_endpoint)
          /\ ~Missing(cb.request.model)
  /\ agentClient.constructed
       => /\ ~Missing(agentClient.azure_endpoint)
          /\ ~Missing(agentClient.azure_deployment)

\* C9: a failure of the chat-completion call never leaves
\* azure_openai_callback: whatever the exception and the history, the
\* callback returns exactly one assistant message with the fixed apology.
C9_ChatFailureYieldsApology ==
  (cb.fn = "azure_openai_callback" /\ cb.chat.kind = "raise" /\ IsException(cb.chat.exc))
    => /\ cb.outcome = "returned"
       /\ cb.exc = None
       /\ cb.result = [type |-> "dict", text |-> None,
                       messages |-> <<[content |-> "I encountered an error and couldn't process your request.",
                                       role |-> "assistant"]>>]

C9_Witness ==
  /\ cb.fn = "azure_openai_callback"
  /\ cb.chat.kind = "raise"
  /\ cb.chat.exc = "BadRequestError"
  /\ cb.outcome = "returned"
  /\ Len(cb.arg) = 2

\* The prefix each example gives its output file.
PrefixOfScan(scan_name) ==
  CASE scan_name = "Basic-Callback-Scan"            -> "basic_scan"
    [] scan_name = "Intermediary-Model-Target-Scan" -> "intermediary_scan"
    [] scan_name = "Advanced-Callback-Scan"         -> "advanced_scan"

\* C10: the output path depends on the example and the timestamp only: it
\* is outputs/<prefix>_<timestamp>.json, and the path printed after the scan
\* is the path scan() was given.
C10_OutputPathDeterministic ==
  scanCall.scan_name # None
    => /\ scanCall.output_path
            = <<"outputs", "/", PrefixOfScan(scanCall.scan_name), "_">>
              \o timestamp \o <<".json">>
       /\ printed # Unbound => printed = scanCall.output_path

C10_Witness ==
  /\ scanCall.scan_name = "Advanced-Callback-Scan"
  /\ timestamp = <<"20260101", "_", "0000", "0", "1">>
  /\ printed = <<"outputs", "/", "advanced_scan", "_", "20260101", "_", "0000", "0", "1", ".json">>
  /\ pc = "cont"

\* The examples that validate the deployment before they use it.
DeploymentValidators == {"run_intermediary", "run_advanced", "run_foundry"}

\* C11: the effective deployment is the value of AZURE_OPENAI_DEPLOYMENT when
\* that is set and non-empty, otherwise the value of
\* AZURE_OPENAI_DEPLOYMENT_NAME; and every validation of an example raises
\* its ValueError for the deployment if and only if both variables are absent
\* or empty (the other values it requires being present).
C11_DeploymentTwoSpellings ==
  [][ LET bothMissing == /\ Missing(environ.AZURE_OPENAI_DEPLOYMENT)
                         /\ Missing(environ.AZURE_OPENAI_DEPLOYMENT_NAME)
          othersPresent == /\ ~Missing(cfg.AZURE_OPENAI_ENDPOINT)
                           /\ pc = "run_intermediary" => ~Missing(cfg.AZURE_OPENAI_API_KEY)
      IN /\ cfg' # NoConfig
              => cfg'.AZURE_OPENAI_DEPLOYMENT
                   = IF ~Missing(environ'.AZURE_OPENAI_DEPLOYMENT)
                     THEN environ'.AZURE_OPENAI_DEPLOYMENT
                     ELSE environ'.AZURE_OPENAI_DEPLOYMENT_NAME
         /\ (pc \in DeploymentValidators /\ bothMissing)
              => (pc' = "raised" /\ exc' = "ValueError")
         /\ (pc \in DeploymentValidators /\ ~bothMissing /\ othersPresent)
              => exc' # "ValueError"
    ]_vars

C11_Witness ==
  /\ pc = "scanning"
  /\ scanCall.scan_name = "Advanced-Callback-Scan"
  /\ environ.AZURE_OPENAI_DEPLOYMENT = ""
  /\ environ.AZURE_OPENAI_DEPLOYMENT_NAME = "dep-b"
  /\ cfg.AZURE_OPENAI_DEPLOYMENT = "dep-b"

\* C12: once the configuration section has run, none of the module-level
\* configuration names (project endpoint, OpenAI endpoint, deployment, API
\* key, API version, output directory, default risk categories) changes, by
\* any menu selection, scan, callback invocation or agent query, whether it
\* succeeds or fails.
C12_ConfigFixedAfterLoad ==
  [][ loadTrace # <<>> => cfg' = cfg ]_vars

C12_Witness ==
  /\ prog = "v2"
  /\ pc = "menu"
  /\ choice = <<"3">>
  /\ cfg.AZURE_OPENAI_API_KEY = "filekey"
  /\ cfg.OUTPUT_DIR = << <<"outputs">> >>

\* How many events of `seq` are in `events`.
Count(seq, events) == Cardinality({i \in 1..Len(seq) : seq[i] \in events})

\* C13: no local retry: one invocation of azure_openai_callback issues at
\* most one chat-completion call, exactly one when the call fails; one menu
\* selection calls scan() at most once; every agent.run of the conversation
\* follows an input of its own, the single-query demo calls agent.run at most
\* once, and a reported agent failure is never followed by another agent.run
\* without a new input.
C13_NoLocalRetry ==
  /\ Count(cb.events, {"chat.completions.create"}) <= 1
  /\ cb.chat.kind = "raise" => Count(cb.events, {"chat.completions.create"}) = 1
  /\ Count(trace, {"scan"}) <= 1
  /\ \A i \in 1..Len(trace) :
       /\ (trace[i] = "agent.run" /\ choice = <<"1">>)
            => (i > 1 /\ trace[i - 1] = "input user")
       /\ (trace[i] = "agent.run" /\ choice = <<"2">>)
            => Count(trace, {"agent.run"}) = 1
       /\ (trace[i] = "print error" /\ i < Len(trace))
            => trace[i + 1] # "agent.run"

C13_Witness ==
  /\ prog = "v3"
  /\ pc = "conv"
  /\ trace[Len(trace)] = "print error"
  /\ Count(trace, {"agent.run"}) = 1

\* The points where an example suspends on an external collaborator.
AwaitEvents == {"scan", "agent.run", "mcp open", "mcp close"}

Awaits(seq) == SelectSeq(seq, LAMBDA e : e \in AwaitEvents)

\* C14 (as stated): every example that returns has made exactly one
\* external-API call (scan() or agent.run) in that invocation.
C14_SingleApiCallPerExample ==
  (InTrace("print path") \/ InTrace("print banner"))
    => Count(trace, {"scan", "agent.run"}) = 1

\* C14 (amended): a scan function that returns has suspended exactly once, on
\* scan(); run_single_query_demo has called agent.run exactly once, inside
\* the MCP context it entered before and left after the call;
\* run_foundry_agent_demo has called agent.run any number of times (none
\* included), at most once per input line, inside one MCP context.
C14_AwaitsPerExample ==
  /\ InTrace("print path") => Awaits(trace) = <<"scan">>
  /\ (InTrace("print banner") /\ choice = <<"2">>)
       => Awaits(trace) = <<"mcp open", "agent.run", "mcp close">>
  /\ (InTrace("print banner") /\ choice = <<"1">>)
       => LET a == Awaits(trace)
          IN /\ Len(a) >= 2
             /\ a[1] = "mcp open"
             /\ a[Len(a)] = "mcp close"
             /\ \A i \in 2..(Len(a) - 1) : a[i] = "agent.run"
             /\ Len(a) - 2 <= Count(trace, {"input user"})

C14_Witness ==
  /\ prog = "v3"
  /\ choice = <<"1">>
  /\ pc = "cont"
  /\ InTrace("print banner")
  /\ Count(trace, {"agent.run"}) = 2

\* C15: whenever run_intermediary_scan calls scan(), the target is a mapping
\* with exactly the keys azure_endpoint, azure_deployment, api_key and
\* api_version, all four values are non-empty, and api_version is
\* "2024-02-15-preview" when AZURE_OPENAI_API_VERSION is absent or empty and
\* the configured value otherwise.
C15_IntermediaryTargetComplete ==
  scanCall.target.kind = "config"
    => LET config == scanCall.target.config
       IN /\ DOMAIN config = {"azure_endpoint", "azure_deployment", "api_key", "api_version"}
          /\ \A k \in DOMAIN config : ~Missing(config[k])
          /\ config.api_version
               = IF Missing(environ.AZURE_OPENAI_API_VERSION)
                 THEN "2024-02-15-preview"
                 ELSE environ.AZURE_OPENAI_API_VERSION

C15_Witness ==
  /\ prog = "v2"
  /\ pc = "scanning"
  /\ scanCall.target.kind = "config"
  /\ environ.AZURE_OPENAI_API_VERSION = ""
  /\ scanCall.target.config.api_version = "2024-02-15-preview"

\* The options each menu lists.
ListedOptions(p) ==
  IF p = "v2" THEN {<<"0">>, <<"1">>, <<"2">>, <<"3">>, <<"4">>}
  ELSE {<<"0">>, <<"1">>, <<"2">>}

\* C16: a choice that is not a listed option runs no scan, demo or display
\* function and does not end the loop: main() prints the invalid-choice line
\* and waits at 'Press Enter to continue...'.  The menu is displayed again
\* only from that prompt, by the one line read there; it is displayed once
\* per iteration, as the first thing, never while an action is in progress.
C16_InvalidChoiceAndOneContinue ==
  [][ /\ ( /\ pc = "menu"
           /\ \A i \in 1..Len(trace') : trace'[i] \notin {"print exiting", "raise"}
           /\ choice' \notin ListedOptions(prog) )
        => /\ pc' = "cont"
           /\ exc' = None
           /\ trace' = <<"display_menu", "input choice", "print invalid">>
           /\ scanCall' = NoScanCall
           /\ agentClient' = NoAgentClient
           /\ ~mcpOpen'
      /\ (pc' = "menu" /\ pc # "menu") => (pc \in {"load", "cont"} /\ trace' = <<>>)
      /\ (pc = "menu" /\ pc' # "menu")
        => (trace'[1] = "display_menu" /\ Count(trace', {"display_menu"}) = 1)
      /\ (pc # "menu" /\ pc' # "menu")
        => Count(trace', {"display_menu"}) = Count(trace, {"display_menu"})
    ]_vars

C16_Witness ==
  /\ prog = "v3"
  /\ pc = "cont"
  /\ choice = <<"3">>
  /\ trace = <<"display_menu", "input choice", "print invalid">>

\* The words that end the conversation, in lower case.
ExitWords == {<<"e", "x", "i", "t">>, <<"q", "u", "i", "t">>, <<"q">>}

\* C17: in the conversation loop of run_foundry_agent_demo, agent.run is
\* called exactly for a line that, stripped, is non-empty and is not exit,
\* quit or q in any letter case, and it is called with that stripped line;
\* an empty line is skipped and the loop prompts again; an exit word, a
\* keyboard interrupt or end-of-input ends the loop without a call of the
\* agent, the MCP context is left and the function returns normally.
C17_AgentRunOnlyOnRealQuery ==
  [][ pc = "conv"
      => LET interrupted == trace'[Len(trace) + 1] = "input interrupted"
             word == user_input'
             ends == interrupted \/ Lower(word) \in ExitWords
         IN /\ ends
                 => /\ pc' = AfterExample(prog)
                    /\ exc' = None
                    /\ ~mcpOpen'
                    /\ query' = query
                    /\ Count(trace', {"agent.run"}) = Count(trace, {"agent.run"})
            /\ (~ends /\ word = <<>>)
                 => /\ pc' = "conv"
                    /\ mcpOpen'
                    /\ query' = query
                    /\ trace' = Append(trace, "input user")
            /\ (~ends /\ word # <<>>)
                 => /\ pc' = "agent_run"
                    /\ mcpOpen'
                    /\ query' = word
                    /\ word = Strip(word)
                    /\ trace' = trace \o <<"input user", "agent.run">>
    ]_vars

C17_Witness ==
  /\ prog = "v3"
  /\ pc = "cont"
  /\ user_input = <<"Q", "U", "I", "T">>
  /\ InTrace("print banner")
  /\ Count(trace, {"agent.run"}) = 1
  /\ Count(trace, {"input user"}) = 3

\* C18: a failure of agent.run (an Exception) never ends an agent demo
\* abnormally: in the conversation it is reported and the loop prompts for
\* the next input with the MCP context still open; in run_single_query_demo
\* it is reported and the function returns normally.  Only an interruption
\* that is no Exception leaves a demo through agent.run.
C18_AgentFailureNeverEndsDemo ==
  [][ /\ pc = "agent_run"
           => \/ pc' = "conv" /\ exc' = None /\ mcpOpen'
              \/ pc' = "raised" /\ exc' \in {"KeyboardInterrupt", "SystemExit"}
      /\ pc = "single_run"
           => \/ pc' = AfterExample(prog) /\ exc' = None /\ InTrace("agent.run")
              \/ pc' = "raised" /\ exc' \in {"KeyboardInterrupt", "SystemExit"}
    ]_vars

C18_Witness ==
  /\ prog = "v3"
  /\ choice = <<"2">>
  /\ pc = "cont"
  /\ exc = None
  /\ InTrace("print error")
  /\ InTrace("print banner")

\* C19: for a non-empty history azure_openai_callback, once its client is
\* built, sends the model exactly one message: the content of the last
\* message of the history with role "user", whatever role that message had.
\* The request and the result are determined by that content and by what
\* the model call does: no earlier message and no other parameter enters.
C19_RequestIsLastContentAsUser ==
  cb.fn = "azure_openai_callback"
    => /\ (Len(cb.arg) >= 1 /\ cb.client.constructed) <=> cb.request.sent
       /\ cb.request.sent
            => /\ cb.request.messages
                    = <<[role |-> "user", content |-> cb.arg[Len(cb.arg)].content]>>
               /\ cb.outcome = "returned"
                    => /\ Len(cb.result.messages) = 1
                       /\ cb.result.messages[1].content
                            = IF cb.chat.kind = "ok"
                              THEN cb.chat.content
                              ELSE "I encountered an error and couldn't process your request."

C19_Witness ==
  /\ cb.fn = "azure_openai_callback"
  /\ cb.request.sent
  /\ Len(cb.arg) = 2
  /\ cb.arg[2].role = "assistant"
  /\ cb.arg[1].content # cb.arg[2].content
  /\ cb.kwargs = [stream |-> TRUE, session_state |-> "state", context |-> "ctx"]
  /\ cb.outcome = "returned"
  /\ cb.chat.kind = "ok"

\* Where main() is inside the action it selected.
ActionPcs == {"run_basic", "run_intermediary", "run_advanced", "scanning",
              "run_foundry", "agent_run", "run_single", "single_run"}

\* The events with which an exception leaves a function.
RaiseEvents == {"raise ValueError", "raise ScanError", "raise McpError", "raise"}

\* C20: the menu loops do not catch a failure of the selected action: when
\* the selected scan or demo raises, the exception leaves main(); neither
\* the 'completed' line nor the 'Press Enter to continue...' prompt is
\* reached, the menu was displayed once in that iteration and is not
\* displayed again: the program takes no further step.
C20_ActionFailurePropagates ==
  [][ /\ pc # "raised"
      /\ ( /\ prog \in {"v2", "v3"}
           /\ pc \in ActionPcs
           /\ trace'[Len(trace')] \in RaiseEvents )
        => /\ pc' = "raised"
           /\ exc' # None
           /\ \A i \in 1..Len(trace') :
                trace'[i] \notin {"print completed", "input continue"}
           /\ trace'[1] = "display_menu"
           /\ Count(trace', {"display_menu"}) = 1
    ]_vars

C20_Witness ==
  /\ prog = "v2"
  /\ choice = <<"1">>
  /\ pc = "raised"
  /\ exc = "ScanError"
  /\ trace[Len(trace)] = "raise ScanError"

\* Where the first / last event `e` is in `seq` (0 when it is not there).
FirstOf(seq, e) ==
  IF \E i \in 1..Len(seq) : seq[i] = e
  THEN CHOOSE i \in 1..Len(seq) : seq[i] = e /\ \A j \in 1..(i - 1) : seq[j] # e
  ELSE 0

\* Where the program is inside an `async with MCPStreamableHTTPTool` block.
InsideMcp == {"conv", "agent_run", "single_run"}

\* C21: in both agent demos the MCP connection brackets every agent call:
\* agent.run is called, and is in progress, only while the context is open
\* (after the one "mcp open" and before the "mcp close" of the invocation);
\* and the context is closed on every way of leaving the block (exit word,
\* keyboard interrupt or end-of-input at the prompt, a caught agent.run
\* failure, an uncaught exception) before the closing banner is printed and
\* before the function returns or the exception leaves it.
C21_McpBracketsAgentCalls ==
  /\ mcpOpen <=> pc \in InsideMcp
  /\ pc \in InsideMcp
       => (InTrace("mcp open") /\ ~InTrace("mcp close"))
  /\ Count(trace, {"mcp open"}) <= 1
  /\ Count(trace, {"mcp close"}) <= Count(trace, {"mcp open"})
  /\ (InTrace("mcp open") /\ pc \notin InsideMcp)
       => Count(trace, {"mcp close"}) = 1
  /\ \A i \in 1..Len(trace) :
       /\ trace[i] = "agent.run"
            => /\ 0 < FirstOf(trace, "mcp open")
               /\ FirstOf(trace, "mcp open") < i
               /\ InTrace("mcp close") => i < FirstOf(trace, "mcp close")
       /\ (trace[i] \in {"print banner", "raise"} /\ InTrace("mcp open"))
            => /\ 0 < FirstOf(trace, "mcp close")
               /\ FirstOf(trace, "mcp close") < i

C21_Witness ==
  /\ prog = "v3"
  /\ choice = <<"1">>
  /\ pc = "raised"
  /\ exc = "KeyboardInterrupt"
  /\ ~mcpOpen
  /\ Count(trace, {"agent.run"}) = 2
  /\ trace[Len(trace) - 1] = "mcp close"

====
